---- MODULE Spec2Model ----
(***************************************************************************)
(* The "analyze" action of the CodeQL action: run() of analyze-action.ts   *)
(* with its helpers sendStatusReport() and uploadDatabases(), and the      *)
(* entry point runWrapper().                                               *)
(*                                                                         *)
(* An optional value (T | undefined) is a set with at most one element:    *)
(* {} is undefined and {v} is the value v.  A statistics object is the set *)
(* of its <<field, value>> pairs.  Every collaborator call appends one     *)
(* event to trace, every core.setFailed() call appends to failed and every *)
(* actionsUtil.sendStatusReport() call appends its record to reports.      *)
(***************************************************************************)
EXTENDS Integers, Sequences, FiniteSets, TLC

\* Largest number of languages a configuration names.
MaxLangs == 2

\* Largest pull request number of a ref.
MaxPull == 2

VARIABLES
    pc,            \* position of the control in runWrapper()/run()
    faults,        \* whether the status calls of actionsUtil may raise
    refCall,       \* a call of getRef(): its environment and its outcome
    inputs,        \* the workflow inputs of the step
    isDebug,       \* core.isDebug()
    config,        \* run(): let config: Config | undefined
    queriesStats,  \* run(): const queriesStats (undefined until runAnalyze returns)
    stats,         \* run(): let stats: AnalysisStatusReport | undefined
    error,         \* the exception in flight or caught (undefined if none)
    completion,    \* how the try/catch of run() completed: "normal", "return", "throw"
    language,      \* the loop variable of the running "for (const language ...)"
    udState,       \* uploadDatabases(): "idle", "running", "returned", "threw"
    failed,        \* the core.setFailed() calls, in order
    reports,       \* the status records handed to actionsUtil.sendStatusReport
    trace,         \* the collaborator invocations, in order
    outputs,       \* core.setOutput("db-locations", ...)
    uncaught,      \* the exception that left run(), caught by runWrapper()
    aborted,       \* the "starting" send returned false
    thrownAt       \* where the exception of the try block was raised

vars == <<pc, faults, refCall, inputs, isDebug, config, queriesStats, stats, error, completion,
          language, udState, failed, reports, trace, outputs, uncaught,
          aborted, thrownAt>>

----------------------------------------------------------------------------
(* Values *)

\* One invocation: the call, the language it is for (0 if none) and, where
\* the model needs it, its argument or its answer ("" otherwise).
Event(op, lang, arg) == [op |-> op, lang |-> lang, arg |-> arg]

\* The fields of QueriesStatusReport and of upload_lib.UploadStatusReport.
QueriesFields == {"analyze_builtin_queries_duration_ms", "analyze_failure_language"}
UploadFields == {"raw_upload_size_bytes", "num_results_in_sarif"}

FieldsOf(s) == {p[1] : p \in s}

\* { ...a, ...b }: the fields of b, and the fields of a that b does not name.
Spread(a, b) == {p \in a : p[1] \notin FieldsOf(b)} \cup b

ConfigNotFoundMessage ==
    "Config file could not be found at expected location. Has the 'init' action been called?"

\* An Error object: its class, message, stack and, for a CodeQLAnalysisError,
\* the partial statistics it carries.
NewError(name, message, report) ==
    [name |-> name, message |-> message, stack |-> <<name, message, "at run">>,
     queriesStatusReport |-> report]

\* What runAnalyze may return for n languages.
AnalyzeReturns(n) ==
    {{<<"analyze_builtin_queries_duration_ms", 1>>}}
    \cup {{<<"analyze_builtin_queries_duration_ms", 1>>, <<"analyze_failure_language", l>>} :
            l \in 1..n}

\* What runAnalyze may throw for n languages.
AnalyzeThrows(n) ==
    {NewError("Error", "runAnalyze failed", {})}
    \cup {NewError("CodeQLAnalysisError", "analysis of a language failed",
                   {{<<"analyze_failure_language", l>>}}) : l \in 1..n}

\* What upload_lib.uploadFromActions may return.
UploadReturns ==
    {{<<"raw_upload_size_bytes", 7>>, <<"num_results_in_sarif", 3>>}}

\* util.getCodeQLDatabasePath(config, language)
getCodeQLDatabasePath(l) == <<"codeql_databases", l>>

\* actionsUtil.getOptionalInput: an empty input is undefined.
getOptionalInput(name) == IF inputs[name] = "" THEN {} ELSE {inputs[name]}

\* actionsUtil.getRequiredInput
getRequiredInput(name) == inputs[name]

----------------------------------------------------------------------------
(* sendStatusReport(startedAt, stats, error) *)

\* Mutant of reportStatus: the failed language of the stats is ignored.
reportStatus_errorOnly(s, e) == IF e # {} THEN "failure" ELSE "success"

\* Mutant of reportStatus: the error is ignored.
reportStatus_statsOnly(s, e) ==
    IF \E x \in s : "analyze_failure_language" \in FieldsOf(x)
    THEN "failure" ELSE "success"

\* The status of a finish record.
reportStatus(s, e) ==
    IF (\E x \in s : "analyze_failure_language" \in FieldsOf(x)) \/ e # {}
    THEN "failure" ELSE "success"

\* actionsUtil.createStatusReportBase(actionName, status, startedAt, cause, exception)
createStatusReportBase(actionName, status, cause, exception) ==
    [action_name |-> actionName, status |-> status,
     cause |-> cause, exception |-> exception]

\* The FinishStatusReport handed to actionsUtil.sendStatusReport.
finishStatusReport(s, e) ==
    [base |-> createStatusReportBase("finish", reportStatus(s, e),
                                     {x.message : x \in e}, {x.stack : x \in e}),
     fields |-> IF s = {} THEN {} ELSE CHOOSE x \in s : TRUE]

\* The record of the "starting" milestone.
startingStatusReport ==
    [base |-> createStatusReportBase("finish", "starting", {}, {}), fields |-> {}]

----------------------------------------------------------------------------
(* Initial state *)

Inputs ==
    [upload : {"true", "false"},
     cleanup_level : {"", "none", "cache"},
     upload_database : {"true", "false"}]

\* No call of getRef().
NoRefCall ==
    [GITHUB_REF |-> <<>>, GITHUB_SHA |-> "", oid |-> "", asked |-> FALSE,
     returned |-> {}, threw |-> {}]

\* The state in which run() starts; f: the status calls may raise.
Start(f) ==
    /\ pc = "sendStarting"
    /\ faults = f
    /\ refCall = NoRefCall
    /\ inputs \in Inputs
    /\ isDebug \in BOOLEAN
    /\ config = {}
    /\ queriesStats = {}
    /\ stats = {}
    /\ error = {}
    /\ completion = "normal"
    /\ language = 0
    /\ udState = "idle"
    /\ failed = <<>>
    /\ reports = <<>>
    /\ trace = <<>>
    /\ outputs = {}
    /\ uncaught = {}
    /\ aborted = FALSE
    /\ thrownAt = {}

\* The status calls return, as actionsUtil.sendStatusReport promises.
Init == Start(FALSE)

\* Any awaited status call may reject.
InitFaults == Start(TRUE)

----------------------------------------------------------------------------
(* run(): the try block *)

\* Mutant of afterStarting: the answer of the "starting" send is ignored.
afterStarting_ignoresAbort(ok) == "getConfig"

\* Where run() goes once the "starting" send has returned ok.
afterStarting(ok) == IF ok THEN "getConfig" ELSE "finally"

\* Whether an awaited status call (createStatusReportBase, sendStatusReport
\* of actionsUtil) raises: never, unless faults are admitted.
StatusCallThrows == IF faults THEN BOOLEAN ELSE {FALSE}

StatusCallError == NewError("Error", "status report could not be built", {})

\* run(), lines 130-140: send the "starting" record; return if it says so.
SendStarting ==
    /\ pc = "sendStarting"
    /\ \E threw \in StatusCallThrows :
        IF threw
        THEN /\ trace' = Append(trace, Event("sendStatusReport", 0, "threw"))
             /\ error' = {StatusCallError}
             /\ thrownAt' = {[stage |-> "sendStarting", at |-> Len(trace')]}
             /\ pc' = "catch"
             /\ UNCHANGED <<reports, aborted, completion>>
        ELSE /\ \E ok \in BOOLEAN :
                /\ reports' = Append(reports, startingStatusReport)
                /\ trace' = Append(trace, Event("sendStatusReport", 0, ""))
                /\ aborted' = ~ok
                /\ completion' = IF ok THEN completion ELSE "return"
                /\ pc' = afterStarting(ok)
             /\ UNCHANGED <<error, thrownAt>>
    /\ UNCHANGED <<faults, refCall, inputs, isDebug, config, queriesStats, stats,
                   language, udState, failed, outputs, uncaught>>

\* Mutant of afterGetConfig: a missing configuration is not checked for.
afterGetConfig_unchecked(c) == "runAnalyze"

\* Where run() goes once getConfig has returned c.
afterGetConfig(c) == IF c = {} THEN "catch" ELSE "runAnalyze"

\* run(), lines 141-147: load the configuration; throw if there is none.
GetConfig ==
    /\ pc = "getConfig"
    /\ \E c \in {{}} \cup {{[languages |-> n, gitHubVersion |-> v]} :
                            n \in 0..MaxLangs, v \in {"DOTCOM", "GHES"}} :
        /\ config' = c
        /\ trace' = Append(trace, Event("getConfig", 0, ""))
        /\ pc' = afterGetConfig(c)
        /\ IF afterGetConfig(c) = "catch"
           THEN /\ error' = {NewError("Error", ConfigNotFoundMessage, {})}
                /\ thrownAt' = {[stage |-> "getConfig", at |-> Len(trace')]}
           ELSE UNCHANGED <<error, thrownAt>>
    /\ UNCHANGED <<faults, refCall, inputs, isDebug, queriesStats, stats, completion, language,
                   udState, failed, reports, outputs, uncaught, aborted>>

Languages == IF config = {} THEN 0 ELSE (CHOOSE c \in config : TRUE).languages

GitHubVersion == IF config = {} THEN "" ELSE (CHOOSE c \in config : TRUE).gitHubVersion

\* Mutant of nextStage: the results are uploaded before the cleanup.
nextStage_uploadBeforeCleanup(stage) ==
    CASE stage = "runAnalyze" -> "upload"
      [] stage = "upload" -> "runCleanup"
      [] stage = "runCleanup" -> "ud_flag"

\* Mutant of nextStage: uploadDatabases is never called.
nextStage_skipsDatabases(stage) ==
    CASE stage = "runAnalyze" -> "runCleanup"
      [] stage = "runCleanup" -> "upload"
      [] stage = "upload" -> "finally"

\* The order of the statements of the try block after the configuration is
\* loaded (lines 154-194): analysis, cleanup, result upload, database upload.
nextStage(stage) ==
    CASE stage = "runAnalyze" -> "runCleanup"
      [] stage = "runCleanup" -> "upload"
      [] stage = "upload" -> "ud_flag"

\* run(), lines 154-162: run the analysis.
RunAnalyze ==
    /\ pc = "runAnalyze"
    /\ trace' = Append(trace, Event("runAnalyze", 0, ""))
    /\ \E threw \in BOOLEAN :
        IF threw
        THEN /\ \E e \in AnalyzeThrows(Languages) : error' = {e}
             /\ thrownAt' = {[stage |-> "runAnalyze", at |-> Len(trace')]}
             /\ pc' = "catch"
             /\ UNCHANGED queriesStats
        ELSE /\ \E r \in AnalyzeReturns(Languages) : queriesStats' = {r}
             /\ pc' = nextStage("runAnalyze")
             /\ UNCHANGED <<error, thrownAt>>
    /\ UNCHANGED <<faults, refCall, inputs, isDebug, config, stats, completion, language, udState,
                   failed, reports, outputs, uncaught, aborted>>

\* Mutant of cleanupLevel: an absent level skips the cleanup.
cleanupLevel_absentSkips(level) == IF level # {"none"} THEN level ELSE {}

\* The level run() hands to runCleanup: undefined when cleanup is skipped.
cleanupLevel(level) ==
    IF level # {"none"} THEN (IF level = {} THEN {"brutal"} ELSE level) ELSE {}

\* core.setOutput("db-locations", dbLocations)
dbLocations(n) == {<<l, getCodeQLDatabasePath(l)>> : l \in 1..n}

\* run(), lines 164-176: clean up unless the level is "none"; publish the
\* database locations.
RunCleanup ==
    /\ pc = "runCleanup"
    /\ LET level == cleanupLevel(getOptionalInput("cleanup_level")) IN
       \E threw \in (IF level = {} THEN {FALSE} ELSE BOOLEAN) :
        /\ trace' = IF level = {} THEN trace
                    ELSE Append(trace, Event("runCleanup", 0, CHOOSE x \in level : TRUE))
        /\ IF threw
           THEN /\ error' = {NewError("Error", "runCleanup failed", {})}
                /\ thrownAt' = {[stage |-> "runCleanup", at |-> Len(trace')]}
                /\ pc' = "catch"
                /\ UNCHANGED outputs
           ELSE /\ outputs' = {dbLocations(Languages)}
                /\ pc' = nextStage("runCleanup")
                /\ UNCHANGED <<error, thrownAt>>
    /\ UNCHANGED <<faults, refCall, inputs, isDebug, config, queriesStats, stats, completion,
                   language, udState, failed, reports, uncaught, aborted>>

\* Mutant of accumulatedStats: the upload statistics are dropped.
accumulatedStats_dropsUpload(q, u) == q

\* The statistics run() keeps once the results are uploaded (or not).
accumulatedStats(q, u) == IF u = {} THEN Spread(q, {}) ELSE Spread(q, CHOOSE x \in u : TRUE)

\* Whether run() uploads the results.
uploadEnabled == getRequiredInput("upload") = "true"

\* run(), lines 178-194: upload the results if asked to; set stats; call
\* uploadDatabases.
UploadResults ==
    /\ pc = "upload"
    /\ LET q == CHOOSE x \in queriesStats : TRUE
           called == IF uploadEnabled
                     THEN Append(trace, Event("uploadFromActions", 0, ""))
                     ELSE trace
       IN
       \E threw \in (IF uploadEnabled THEN BOOLEAN ELSE {FALSE}) :
        IF threw
        THEN /\ trace' = called
             /\ error' = {NewError("Error", "uploadFromActions failed", {})}
             /\ thrownAt' = {[stage |-> "uploadFromActions", at |-> Len(trace')]}
             /\ pc' = "catch"
             /\ UNCHANGED <<stats, udState>>
        ELSE /\ \E u \in (IF uploadEnabled THEN {{r} : r \in UploadReturns} ELSE {{}}) :
                    stats' = {accumulatedStats(q, u)}
             /\ pc' = nextStage("upload")
             /\ IF nextStage("upload") = "ud_flag"
                THEN /\ trace' = Append(called, Event("uploadDatabases", 0, ""))
                     /\ udState' = "running"
                ELSE /\ trace' = called
                     /\ UNCHANGED udState
             /\ UNCHANGED <<error, thrownAt>>
    /\ UNCHANGED <<faults, refCall, inputs, isDebug, config, queriesStats, completion, language,
                   failed, reports, outputs, uncaught, aborted>>

----------------------------------------------------------------------------
(* uploadDatabases(repositoryNwo, config, apiDetails, logger) *)

\* uploadDatabases returns to run(), line 194: the try block is over.
UdReturn ==
    /\ udState' = "returned"
    /\ pc' = "finally"

\* An exception leaves uploadDatabases and reaches the catch of run().
UdThrow(e) ==
    /\ udState' = "threw"
    /\ error' = {e}
    /\ thrownAt' = {[stage |-> "uploadDatabases", at |-> Len(trace')]}
    /\ pc' = "catch"

\* Lines 61-64: the "upload-database" input.
UdFlag ==
    /\ pc = "ud_flag"
    /\ IF getRequiredInput("upload_database") # "true"
       THEN UdReturn
       ELSE pc' = "ud_variant" /\ UNCHANGED udState
    /\ UNCHANGED <<faults, refCall, inputs, isDebug, config, queriesStats, stats, error, completion,
                   language, failed, reports, trace, outputs, uncaught, aborted,
                   thrownAt>>

\* Lines 66-70: only against github.com.
UdVariant ==
    /\ pc = "ud_variant"
    /\ IF GitHubVersion # "DOTCOM"
       THEN UdReturn
       ELSE pc' = "ud_branch" /\ UNCHANGED udState
    /\ UNCHANGED <<faults, refCall, inputs, isDebug, config, queriesStats, stats, error, completion,
                   language, failed, reports, trace, outputs, uncaught, aborted,
                   thrownAt>>

\* Lines 72-76: only on the default branch.
UdDefaultBranch ==
    /\ pc = "ud_branch"
    /\ \E isDefault \in BOOLEAN :
        /\ trace' = Append(trace, Event("isAnalyzingDefaultBranch", 0,
                                        IF isDefault THEN "true" ELSE "false"))
        /\ IF ~isDefault
           THEN UdReturn
           ELSE pc' = "ud_probe" /\ UNCHANGED udState
    /\ UNCHANGED <<faults, refCall, inputs, isDebug, config, queriesStats, stats, error, completion,
                   language, failed, reports, outputs, uncaught, aborted, thrownAt>>

\* The answers of the hosting API to the probe: success, the 404 of a
\* repository that is not opted in, another HTTP error, an error that is no
\* HTTP error.
ProbeResponses == {"200", "404", "500", "network"}

\* Mutant of probePassed: only a 404 skips the upload.
probePassed_unless404(response) == response # "404"

\* Whether uploadDatabases goes on to the languages after the probe.
probePassed(response) == response = "200"

\* Lines 78-94: probe the databases endpoint; any error skips the upload.
\* Line 97: enter the loop over config.languages.
UdProbe ==
    /\ pc = "ud_probe"
    /\ \E response \in ProbeResponses :
        /\ trace' = Append(trace, Event("GET databases", 0, response))
        /\ IF probePassed(response) /\ Languages > 0
           THEN /\ language' = 1
                /\ pc' = "ud_bundle"
                /\ UNCHANGED udState
           ELSE /\ UdReturn
                /\ UNCHANGED language
    /\ UNCHANGED <<faults, refCall, inputs, isDebug, config, queriesStats, stats, error, completion,
                   failed, reports, outputs, uncaught, aborted, thrownAt>>

\* Lines 98-101: bundle the database of the language; codeql.databaseBundle is
\* awaited outside any try.
UdBundle ==
    /\ pc = "ud_bundle"
    /\ trace' = Append(trace, Event("databaseBundle", language, ""))
    /\ \E threw \in BOOLEAN :
        IF threw
        THEN UdThrow(NewError("Error", "databaseBundle failed", {}))
        ELSE pc' = "ud_read" /\ UNCHANGED <<udState, error, thrownAt>>
    /\ UNCHANGED <<faults, refCall, inputs, isDebug, config, queriesStats, stats, completion,
                   language, failed, reports, outputs, uncaught, aborted>>

\* Line 104: read the bundle; fs.readFileSync is called outside any try.
UdRead ==
    /\ pc = "ud_read"
    /\ trace' = Append(trace, Event("readFileSync", language, ""))
    /\ \E threw \in BOOLEAN :
        IF threw
        THEN UdThrow(NewError("Error", "ENOENT: no such file or directory", {}))
        ELSE pc' = "ud_put" /\ UNCHANGED <<udState, error, thrownAt>>
    /\ UNCHANGED <<faults, refCall, inputs, isDebug, config, queriesStats, stats, completion,
                   language, failed, reports, outputs, uncaught, aborted>>

\* Mutant of afterPut: a failed PUT ends the loop.
afterPut_stopsOnFailure(ok, l, n) ==
    IF ok /\ l < n THEN [pc |-> "ud_bundle", language |-> l + 1]
    ELSE [pc |-> "finally", language |-> l]

\* Where uploadDatabases goes after the PUT of language l of n, which
\* succeeded (ok) or threw: the catch of lines 115-119 only logs.
afterPut(ok, l, n) ==
    IF l < n THEN [pc |-> "ud_bundle", language |-> l + 1]
    ELSE [pc |-> "finally", language |-> l]

\* Lines 105-120: upload the bundle; a failure is logged; next language.
UdPut ==
    /\ pc = "ud_put"
    /\ \E ok \in BOOLEAN :
        LET next == afterPut(ok, language, Languages) IN
        /\ trace' = Append(trace, Event("PUT database", language,
                                        IF ok THEN "ok" ELSE "failed"))
        /\ pc' = next.pc
        /\ language' = next.language
        /\ udState' = IF next.pc = "finally" THEN "returned" ELSE udState
    /\ UNCHANGED <<faults, refCall, inputs, isDebug, config, queriesStats, stats, error, completion,
                   failed, reports, outputs, uncaught, aborted, thrownAt>>

----------------------------------------------------------------------------
(* run(): catch, finally, the final report; runWrapper() *)

\* Mutant of SetFailed: the error is printed whole, not its message alone.
SetFailed_wholeError(prefix, e) == [prefix |-> prefix, name |-> e.name, text |-> e.message]

\* A core.setFailed() call.
SetFailed(prefix, e) == [prefix |-> prefix, name |-> IF prefix = "" THEN "" ELSE e.name,
                         text |-> e.message]

\* Mutant of catchStats: the statistics of a CodeQLAnalysisError are not taken.
catchStats_keepsStats(s, e) == s

\* Mutant of catchStats: the class of the error is not looked at.
catchStats_anyError(s, e) ==
    IF e.queriesStatusReport = {} THEN {}
    ELSE {Spread(CHOOSE r \in e.queriesStatusReport : TRUE, {})}

\* The stats the catch block reports for the error e (the stats of run() are s).
catchStats(s, e) ==
    IF e.name = "CodeQLAnalysisError"
    THEN {Spread(CHOOSE r \in e.queriesStatusReport : TRUE, {})}
    ELSE s

\* Lines 195-204: mark the run failed, send the failure record, return.
Catch ==
    /\ pc = "catch"
    /\ LET e == CHOOSE x \in error : TRUE IN
        /\ failed' = Append(failed, SetFailed("", e))
        /\ stats' = catchStats(stats, e)
        /\ \E threw \in StatusCallThrows :
            IF threw
            THEN /\ trace' = Append(trace, Event("sendStatusReport", 0, "threw"))
                 /\ uncaught' = {StatusCallError}
                 /\ completion' = "throw"
                 /\ UNCHANGED reports
            ELSE /\ reports' = Append(reports, finishStatusReport(stats', {e}))
                 /\ trace' = Append(trace, Event("sendStatusReport", 0, ""))
                 /\ completion' = "return"
                 /\ UNCHANGED uncaught
    /\ pc' = "finally"
    /\ UNCHANGED <<faults, refCall, inputs, isDebug, config, queriesStats, error,
                   language, udState, outputs, aborted, thrownAt>>

\* Mutant of afterFinally: the catch block does not return.
afterFinally_fallsThrough(c) == "finalReport"

\* Mutant of afterFinally: run() returns from the finally block.
afterFinally_alwaysReturns(c) == "done"

\* Where run() goes when the finally block ends without an exception: it
\* returns if the try or the catch block returned, lets the exception of the
\* catch block go on to runWrapper(), and goes on to line 233 otherwise.
afterFinally(c) ==
    IF c = "return" THEN "done"
    ELSE IF c = "throw" THEN "runWrapperCatch" ELSE "finalReport"

\* Line 206: whether the finally block prints the debug logs.
printsDebugLogs(debug, c) == debug /\ c # {}

\* Lines 205-208: the finally block; enter the loop over config.languages.
Finally ==
    /\ pc = "finally"
    /\ IF printsDebugLogs(isDebug, config) /\ Languages > 0
       THEN /\ language' = 1
            /\ pc' = "walkLogFiles"
       ELSE /\ pc' = afterFinally(completion)
            /\ UNCHANGED language
    /\ UNCHANGED <<faults, refCall, inputs, isDebug, config, queriesStats, stats, error, completion,
                   udState, failed, reports, trace, outputs, uncaught, aborted,
                   thrownAt>>

\* Lines 209-228: walk the log directory of the language; fs.readdirSync and
\* fs.readFileSync throw on a directory or file that cannot be read, and the
\* exception leaves run().
WalkLogFiles ==
    /\ pc = "walkLogFiles"
    /\ trace' = Append(trace, Event("walkLogFiles", language, ""))
    /\ \E threw \in BOOLEAN :
        IF threw
        THEN /\ uncaught' = {NewError("Error", "ENOENT: no such file or directory", {})}
             /\ pc' = "runWrapperCatch"
             /\ UNCHANGED language
        ELSE /\ IF language < Languages
                THEN language' = language + 1 /\ pc' = "walkLogFiles"
                ELSE pc' = afterFinally(completion) /\ UNCHANGED language
             /\ UNCHANGED uncaught
    /\ UNCHANGED <<faults, refCall, inputs, isDebug, config, queriesStats, stats, error, completion,
                   udState, failed, reports, outputs, aborted, thrownAt>>

\* Line 233: the final report of a run whose try block completed.
FinalReport ==
    /\ pc = "finalReport"
    /\ \E threw \in StatusCallThrows :
        IF threw
        THEN /\ trace' = Append(trace, Event("sendStatusReport", 0, "threw"))
             /\ uncaught' = {StatusCallError}
             /\ pc' = "runWrapperCatch"
             /\ UNCHANGED reports
        ELSE /\ reports' = Append(reports, finishStatusReport(stats, {}))
             /\ trace' = Append(trace, Event("sendStatusReport", 0, ""))
             /\ pc' = "done"
             /\ UNCHANGED uncaught
    /\ UNCHANGED <<faults, refCall, inputs, isDebug, config, queriesStats, stats, error,
                   completion, language, udState, failed, outputs, aborted, thrownAt>>

\* runWrapper(), lines 239-242: an exception that left run().
RunWrapperCatch ==
    /\ pc = "runWrapperCatch"
    /\ failed' = Append(failed, SetFailed("analyze action failed: ",
                                          CHOOSE x \in uncaught : TRUE))
    /\ pc' = "done"
    /\ UNCHANGED <<faults, refCall, inputs, isDebug, config, queriesStats, stats, error, completion,
                   language, udState, reports, trace, outputs, uncaught, aborted,
                   thrownAt>>

Next ==
    \/ SendStarting
    \/ GetConfig
    \/ RunAnalyze
    \/ RunCleanup
    \/ UploadResults
    \/ UdFlag
    \/ UdVariant
    \/ UdDefaultBranch
    \/ UdProbe
    \/ UdBundle
    \/ UdRead
    \/ UdPut
    \/ Catch
    \/ Finally
    \/ WalkLogFiles
    \/ FinalReport
    \/ RunWrapperCatch

Spec == Init /\ [][Next]_vars

SpecFaults == InitFaults /\ [][Next]_vars

----------------------------------------------------------------------------
(* sendStatusReport() on its own: every stats and every error *)

\* The statistics objects sendStatusReport may be handed: one value for each
\* field of a set of fields.
ReportStats ==
    {s \in SUBSET ({<<"analyze_builtin_queries_duration_ms", 1>>,
                    <<"raw_upload_size_bytes", 7>>, <<"num_results_in_sarif", 3>>}
                   \cup {<<"analyze_failure_language", l>> : l \in 1..MaxLangs}) :
        \A p, q \in s : p[1] = q[1] => p = q}

\* The errors sendStatusReport may be handed.
ReportErrors ==
    AnalyzeThrows(MaxLangs) \cup {NewError("Error", ConfigNotFoundMessage, {})}

InitReport ==
    /\ pc = "sendStatusReport"
    /\ faults = FALSE
    /\ refCall = NoRefCall
    /\ stats \in {{}} \cup {{s} : s \in ReportStats}
    /\ error \in {{}} \cup {{e} : e \in ReportErrors}
    /\ inputs = [upload |-> "false", cleanup_level |-> "none", upload_database |-> "false"]
    /\ isDebug = FALSE
    /\ config = {}
    /\ queriesStats = {}
    /\ completion = "normal"
    /\ language = 0
    /\ udState = "idle"
    /\ failed = <<>>
    /\ reports = <<>>
    /\ trace = <<>>
    /\ outputs = {}
    /\ uncaught = {}
    /\ aborted = FALSE
    /\ thrownAt = {}

\* Lines 32-53: build the finish record of (stats, error) and send it.
SendStatusReport ==
    /\ pc = "sendStatusReport"
    /\ reports' = Append(reports, finishStatusReport(stats, error))
    /\ trace' = Append(trace, Event("sendStatusReport", 0, ""))
    /\ pc' = "reported"
    /\ UNCHANGED <<faults, refCall, inputs, isDebug, config, queriesStats, stats, error, completion,
                   language, udState, failed, outputs, uncaught, aborted, thrownAt>>

NextReport == SendStatusReport

SpecReport == InitReport /\ [][NextReport]_vars

----------------------------------------------------------------------------
(* getRef(): the ref the results are attributed to *)

\* A ref is the sequence of its segments: "refs/pull/1/merge" is
\* <<"refs", "pull", "1", "merge">> and the empty string is <<>>.
PullNumbers == {ToString(n) : n \in 1..MaxPull}

Refs ==
    {<<>>, <<"refs", "heads", "main">>, <<"refs", "tags", "v1">>,
     <<"refs", "pull", "x", "merge">>}
    \cup {<<"refs", "pull", n, kind>> : n \in PullNumbers, kind \in {"merge", "head"}}

\* Commit identifiers: compared for equality only.
Oids == {"aaaaaaaa", "bbbbbbbb", "cccccccc"}

\* Whether the ref is the merge ref of a pull request: refs/pull/<n>/merge.
isPullMergeRef(ref) ==
    /\ Len(ref) = 4
    /\ ref[1] = "refs" /\ ref[2] = "pull" /\ ref[4] = "merge"
    /\ ref[3] \in PullNumbers

\* refs/pull/<n>/merge rewritten to refs/pull/<n>/head.
pullHeadRef(ref) == [ref EXCEPT ![4] = "head"]

\* Mutant of getRef: the checked-out commit is not compared.
getRef_keepsMergeRef(ref, sha, oid) ==
    IF ref = <<>>
    THEN [asked |-> FALSE, returned |-> {}, threw |-> {"InvalidStateError"}]
    ELSE [asked |-> isPullMergeRef(ref), returned |-> {ref}, threw |-> {}]

\* Mutant of getRef: an empty ref is returned as it is.
getRef_acceptsEmpty(ref, sha, oid) ==
    IF isPullMergeRef(ref)
    THEN [asked |-> TRUE, returned |-> {IF oid = sha THEN ref ELSE pullHeadRef(ref)},
          threw |-> {}]
    ELSE [asked |-> FALSE, returned |-> {ref}, threw |-> {}]

\* getRef() with GITHUB_REF = ref, GITHUB_SHA = sha and getCommitOid()
\* answering oid: whether getCommitOid was asked, the ref returned, the
\* error thrown.
getRef(ref, sha, oid) ==
    IF ref = <<>>
    THEN [asked |-> FALSE, returned |-> {}, threw |-> {"InvalidStateError"}]
    ELSE IF isPullMergeRef(ref)
    THEN [asked |-> TRUE, returned |-> {IF oid = sha THEN ref ELSE pullHeadRef(ref)},
          threw |-> {}]
    ELSE [asked |-> FALSE, returned |-> {ref}, threw |-> {}]

InitRef ==
    /\ pc = "getRef"
    /\ \E ref \in Refs, sha \in Oids, oid \in Oids :
          refCall = [NoRefCall EXCEPT !.GITHUB_REF = ref, !.GITHUB_SHA = sha, !.oid = oid]
    /\ faults = FALSE
    /\ inputs = [upload |-> "false", cleanup_level |-> "none", upload_database |-> "false"]
    /\ isDebug = FALSE
    /\ config = {}
    /\ queriesStats = {}
    /\ stats = {}
    /\ error = {}
    /\ completion = "normal"
    /\ language = 0
    /\ udState = "idle"
    /\ failed = <<>>
    /\ reports = <<>>
    /\ trace = <<>>
    /\ outputs = {}
    /\ uncaught = {}
    /\ aborted = FALSE
    /\ thrownAt = {}

\* One call of getRef().
GetRef ==
    /\ pc = "getRef"
    /\ LET r == getRef(refCall.GITHUB_REF, refCall.GITHUB_SHA, refCall.oid) IN
       refCall' = [refCall EXCEPT !.asked = r.asked, !.returned = r.returned,
                                  !.threw = r.threw]
    /\ pc' = "gotRef"
    /\ UNCHANGED <<faults, inputs, isDebug, config, queriesStats, stats, error,
                   completion, language, udState, failed, reports, trace, outputs,
                   uncaught, aborted, thrownAt>>

NextRef == GetRef

SpecRef == InitRef /\ [][NextRef]_vars

----------------------------------------------------------------------------
(* What the claims speak of *)

\* The positions in reports of the finish records: those sendStatusReport
\* built, of status "success" or "failure".
FinishReports == {i \in DOMAIN reports : reports[i].base.status # "starting"}

\* The positions in trace of the invocations of op.
Calls(op) == {i \in DOMAIN trace : trace[i].op = op}

\* The stage whose exception the catch block of run() caught.
ThrownIn(stage) == \E t \in thrownAt : t.stage = stage

HasFailedLanguage(s) == \E p \in s : p[1] = "analyze_failure_language"

----------------------------------------------------------------------------
(* The claims *)

\* C1: once the "starting" send has signalled abort, the run does nothing
\* more: the only invocation and the only record are the "starting" send
\* itself, the run is not marked failed and no finish record is sent.
C1_AbortStopsTheRun ==
    aborted =>
        /\ trace = <<Event("sendStatusReport", 0, "")>>
        /\ reports = <<startingStatusReport>>
        /\ FinishReports = {}
        /\ failed = <<>>
        /\ udState = "idle"
        /\ pc \in {"finally", "done"}

C1_Witness == aborted /\ pc = "done" /\ isDebug

\* C2: a run that has ended has exactly one terminal outcome: it returned
\* early on abort without a finish record, or it sent exactly one finish
\* record; never none of these, never two finish records.
C2_OneTerminalOutcome ==
    /\ Cardinality(FinishReports) <= 1
    /\ aborted => FinishReports = {}
    /\ pc = "done" => (aborted \/ Cardinality(FinishReports) = 1)

\* C3: the status of the finish record sendStatusReport builds is "failure"
\* exactly when it was handed an error or stats that name a failed language,
\* and "success" otherwise.
C3_FailureIffErrorOrFailedLanguage ==
    pc = "reported" =>
        LET r == reports[Len(reports)] IN
        /\ r.base.status \in {"failure", "success"}
        /\ r.base.status = "failure" <=>
              (error # {} \/ \E s \in stats : HasFailedLanguage(s))

C3_Witness ==
    /\ pc = "reported"
    /\ error = {}
    /\ \E s \in stats : HasFailedLanguage(s)
    /\ reports[Len(reports)].base.status = "failure"

\* C4: when the "starting" send lets the run go on and getConfig returns no
\* configuration, neither the analysis nor cleanup nor an upload is invoked,
\* and the run ends with one finish record, of status "failure" and with the
\* message that asks for the 'init' action.
C4_NoConfigFailsBeforeAnalysis ==
    (Calls("getConfig") # {} /\ config = {}) =>
        /\ Calls("runAnalyze") = {}
        /\ Calls("runCleanup") = {}
        /\ Calls("uploadFromActions") = {}
        /\ Calls("uploadDatabases") = {}
        /\ udState = "idle"
        /\ pc \in {"catch", "finally", "done"}
        /\ pc # "catch" =>
            /\ Len(reports) = 2
            /\ FinishReports = {2}
            /\ reports[2].base.status = "failure"
            /\ reports[2].base.cause = {ConfigNotFoundMessage}

C4_Witness == Calls("getConfig") # {} /\ config = {} /\ pc = "done"

\* C5: with the "upload" input not "true", uploadFromActions is never invoked,
\* no finish record has a field of UploadStats, and the finish record of a
\* run whose stages all completed has exactly the fields runAnalyze returned;
\* with the input "true" and the upload done, the stats of the run and of its
\* finish record are the AnalysisStats together with the UploadStats.
C5_UploadToggle ==
    /\ ~uploadEnabled =>
        /\ Calls("uploadFromActions") = {}
        /\ \A i \in FinishReports : FieldsOf(reports[i].fields) \cap UploadFields = {}
        /\ (thrownAt = {} /\ FinishReports # {}) =>
              \A i \in FinishReports : {reports[i].fields} = queriesStats
    /\ (uploadEnabled /\ Calls("uploadFromActions") # {} /\ pc # "catch"
          /\ ~ThrownIn("uploadFromActions")) =>
        \E q \in queriesStats : \E u \in UploadReturns :
            /\ stats = {q \cup u}
            /\ \A i \in FinishReports : reports[i].fields = q \cup u

C5_Witness ==
    /\ ~uploadEnabled
    /\ pc = "done"
    /\ thrownAt = {}
    /\ FinishReports # {}

\* C6: uploadDatabases never raises an exception to run(): whatever a check or
\* a step for a language does, it returns.
C6_UploadDatabasesNeverThrows ==
    /\ udState # "threw"
    /\ ~ThrownIn("uploadDatabases")

\* The positions in trace of the PUT of the database of language l.
Puts(l) == {i \in Calls("PUT database") : trace[i].lang = l}

\* C7: the database of a language is PUT at most once; once an eligible
\* uploadDatabases has returned, the database of every configured language
\* was PUT exactly once; after the PUT of a language that is not the last,
\* failed or not, the next language is the next thing worked on; and a failed
\* PUT is never the exception that fails the run.
C7_EveryLanguageUploadedOnce ==
    /\ \A l \in 1..Languages : Cardinality(Puts(l)) <= 1
    /\ (udState = "returned" /\ \E i \in Calls("GET databases") : trace[i].arg = "200") =>
          \A l \in 1..Languages : Cardinality(Puts(l)) = 1
    /\ \A i \in Calls("PUT database") :
          trace[i].lang < Languages =>
             IF i < Len(trace)
             THEN trace[i + 1] = Event("databaseBundle", trace[i].lang + 1, "")
             ELSE pc = "ud_bundle" /\ language = trace[i].lang + 1
    /\ \A t \in thrownAt : trace[t.at].op # "PUT database"

C7_Witness ==
    /\ udState = "returned"
    /\ Languages >= 2
    /\ \E i \in Puts(1) : trace[i].arg = "failed"
    /\ Puts(2) # {}
    /\ thrownAt = {}

\* The stages in the order of the code: the results are uploaded before
\* uploadDatabases is called.
CodeRank(e, i) ==
    CASE e.op = "sendStatusReport" -> IF i = 1 THEN 0 ELSE 7
      [] e.op = "getConfig" -> 1
      [] e.op = "runAnalyze" -> 2
      [] e.op = "runCleanup" -> 3
      [] e.op = "uploadFromActions" -> 4
      [] e.op = "uploadDatabases" -> 5
      [] e.op \in {"isAnalyzingDefaultBranch", "GET databases", "databaseBundle",
                   "readFileSync", "PUT database"} -> 6
      [] e.op = "walkLogFiles" -> 7

\* The stages in the order starting, analyzing, cleaning-up,
\* uploading-databases, uploading-results, finished.
SpecRank(e, i) ==
    CASE e.op = "sendStatusReport" -> IF i = 1 THEN 0 ELSE 7
      [] e.op = "getConfig" -> 1
      [] e.op = "runAnalyze" -> 2
      [] e.op = "runCleanup" -> 3
      [] e.op = "uploadDatabases" -> 4
      [] e.op \in {"isAnalyzingDefaultBranch", "GET databases", "databaseBundle",
                   "readFileSync", "PUT database"} -> 5
      [] e.op = "uploadFromActions" -> 6
      [] e.op = "walkLogFiles" -> 7

\* The invocations follow the order rank, each stage is entered at most once,
\* and nothing but uploadDatabases runs while uploadDatabases runs.
StagesInOrder(rank(_, _)) ==
    /\ \A i, j \in DOMAIN trace : i < j => rank(trace[i], i) <= rank(trace[j], j)
    /\ \A op \in {"getConfig", "runAnalyze", "runCleanup", "uploadFromActions",
                  "uploadDatabases"} : Cardinality(Calls(op)) <= 1
    /\ udState = "running" <=>
          pc \in {"ud_flag", "ud_variant", "ud_branch", "ud_probe", "ud_bundle",
                  "ud_read", "ud_put"}

TryIsOver == pc \in {"finally", "walkLogFiles", "finalReport", "runWrapperCatch", "done"}

C10_StageExceptionFailsTheRun ==
    \A t \in thrownAt :
        pc # "catch" =>
            \E e \in error :
                /\ Len(failed) >= 1
                /\ failed[1] = [prefix |-> "", name |-> "", text |-> e.message]
                /\ Cardinality(FinishReports) = 1
                /\ \A i \in FinishReports :
                      /\ reports[i].base.status = "failure"
                      /\ reports[i].base.cause = {e.message}
                      /\ reports[i].base.exception = {e.stack}
                      /\ i = Len(reports)
                /\ Cardinality({i \in Calls("sendStatusReport") : i > t.at}) = 1
                /\ \A i \in DOMAIN trace :
                      i > t.at => trace[i].op \in {"sendStatusReport", "walkLogFiles"}

C10_Witness ==
    /\ pc = "done"
    /\ ThrownIn("uploadDatabases")
    /\ Calls("walkLogFiles") # {}

\* C11: when runAnalyze throws a CodeQLAnalysisError that carries partial
\* statistics, the failure finish record of the run has exactly those
\* statistics as its fields, with the message and the stack of the error.
C11_PartialStatsInFailureRecord ==
    \A e \in error :
        (e.name = "CodeQLAnalysisError" /\ pc # "catch") =>
            /\ ThrownIn("runAnalyze")
            /\ Cardinality(FinishReports) = 1
            /\ \A i \in FinishReports :
                  /\ {reports[i].fields} = e.queriesStatusReport
                  /\ HasFailedLanguage(reports[i].fields)
                  /\ reports[i].base.status = "failure"
                  /\ reports[i].base.cause = {e.message}
                  /\ reports[i].base.exception = {e.stack}

C11_Witness ==
    /\ pc = "done"
    /\ \E e \in error : e.name = "CodeQLAnalysisError"
    /\ \E i \in FinishReports : reports[i].fields = {<<"analyze_failure_language", 2>>}

\* The finish records of a run whose try block threw in one of stages.
FailureFieldsAre(stages, holds(_)) ==
    \A t \in thrownAt :
        (t.stage \in stages /\ pc # "catch") =>
            /\ FinishReports # {}
            /\ \A i \in FinishReports : holds(reports[i].fields)

\* The failure record has all the statistics runAnalyze returned.
HasAnalysisStats(fields) == \A q \in queriesStats : q \subseteq fields

\* The failure record has the stats of run(), and these hold what runAnalyze
\* returned.
HasStatsOfRun(fields) == stats = {fields} /\ HasAnalysisStats(fields)

\* The failure record has no statistics at all.
HasNoStats(fields) == fields = {} /\ stats = {}

\* C15, as amended: an exception of uploadDatabases, raised after run() has
\* set stats, gives a failure record with these stats, the AnalysisStats among
\* them; an exception of cleanup or of the result upload, raised before
\* run() sets stats, gives a failure record without any statistics.
C15_StatsOnlyOnceAssigned ==
    /\ FailureFieldsAre({"uploadDatabases"}, HasStatsOfRun)
    /\ FailureFieldsAre({"runCleanup", "uploadFromActions"}, HasNoStats)

\* C15, as claimed: an exception of cleanup, of the result upload or of
\* uploadDatabases gives a failure record with the AnalysisStats that
\* runAnalyze had returned.
C15_KnownStatsInFailureRecord ==
    FailureFieldsAre({"runCleanup", "uploadFromActions", "uploadDatabases"},
                     HasAnalysisStats)

C15_Witness ==
    /\ pc = "done"
    /\ ThrownIn("uploadDatabases")
    /\ uploadEnabled
    /\ \E i \in FinishReports : UploadFields \subseteq FieldsOf(reports[i].fields)

\* The records of a run as its try and catch blocks decide them, whatever
\* the finally block does.
RecordsOfTheStages ==
    IF aborted THEN <<startingStatusReport>>
    ELSE IF thrownAt # {} THEN <<startingStatusReport, finishStatusReport(stats, error)>>
    ELSE <<startingStatusReport, finishStatusReport(stats, {})>>

\* C16: the debug log walk changes neither the control flow nor the status
\* records: it runs only in debug mode with a loaded configuration, and a
\* run that has ended has sent the records its stages decide, whatever the
\* walk did.
C16_DebugWalkChangesNothing ==
    /\ Calls("walkLogFiles") # {} => (isDebug /\ config # {})
    /\ pc = "done" => reports = RecordsOfTheStages

\* C17: uploadDatabases checks the "upload-database" input, then the host
\* variant, then the default branch, then probes the API, and stops at the
\* first check that fails: a later check is made only when the earlier ones
\* passed, the branch check and the probe at most once, bundling, reading
\* and PUT only after a probe answered 200; after a check that failed,
\* a probe error of any kind included, uploadDatabases has returned.
C17_EligibilityInOrder ==
    LET flag == getRequiredInput("upload_database") = "true"
        dotcom == GitHubVersion = "DOTCOM"
        branch == Calls("isAnalyzingDefaultBranch")
        probe == Calls("GET databases")
        perLanguage == Calls("databaseBundle") \cup Calls("readFileSync")
                         \cup Calls("PUT database")
    IN
    /\ pc = "ud_variant" => flag
    /\ (pc = "ud_branch" \/ branch # {}) => (flag /\ dotcom)
    /\ (pc = "ud_probe" \/ probe # {}) =>
          (flag /\ dotcom /\ \E i \in branch : trace[i].arg = "true")
    /\ Cardinality(branch) <= 1
    /\ Cardinality(probe) <= 1
    /\ \A i \in branch : \A j \in probe : i < j
    /\ \A i \in perLanguage : \E j \in probe : j < i /\ trace[j].arg = "200"
    /\ pc \in {"ud_bundle", "ud_read", "ud_put"} => \E j \in probe : trace[j].arg = "200"
    /\ (Calls("uploadDatabases") # {} /\ pc # "ud_flag" /\ ~flag) =>
          (udState = "returned" /\ branch = {} /\ probe = {})
    /\ (Calls("uploadDatabases") # {} /\ pc \notin {"ud_flag", "ud_variant"} /\ ~dotcom) =>
          (udState = "returned" /\ branch = {} /\ probe = {})
    /\ \A i \in branch : trace[i].arg = "false" => (udState = "returned" /\ probe = {})
    /\ \A j \in probe : trace[j].arg # "200" =>
          (udState = "returned" /\ perLanguage = {} /\ thrownAt = {})

C17_Witness ==
    /\ pc = "done"
    /\ Languages > 0
    /\ \E j \in Calls("GET databases") : trace[j].arg = "500"
    /\ \A i \in FinishReports : reports[i].base.status = "success"
    /\ FinishReports # {}

\* C18: runCleanup is called at most once and after runAnalyze has returned;
\* once run() is past the cleanup, it was called unless the "cleanup-level"
\* input is "none", with the level of the input, or "brutal" without one.
C18_CleanupUnlessNone ==
    /\ Cardinality(Calls("runCleanup")) <= 1
    /\ \A i \in Calls("runCleanup") :
          queriesStats # {} /\ \E j \in Calls("runAnalyze") : j < i
    /\ (queriesStats # {} /\ pc # "runCleanup") =>
          /\ Calls("runCleanup") = {} <=> inputs["cleanup_level"] = "none"
          /\ \A i \in Calls("runCleanup") :
                trace[i].arg = IF inputs["cleanup_level"] = "" THEN "brutal"
                               ELSE inputs["cleanup_level"]

C18_Witness ==
    /\ pc = "done"
    /\ inputs["cleanup_level"] = ""
    /\ \E i \in Calls("runCleanup") : trace[i].arg = "brutal"

\* C19: a finish record of status "success" is sent only in a run that was
\* not aborted, loaded its configuration, and whose analysis, cleanup (unless
\* the level is "none"), result upload (if enabled) and uploadDatabases all
\* returned; in such a run core.setFailed was never called, and the record is
\* the last one.
C19_SuccessOnlyAfterAllStages ==
    \A i \in FinishReports :
        reports[i].base.status = "success" =>
            /\ ~aborted
            /\ config # {}
            /\ thrownAt = {} /\ error = {} /\ uncaught = {}
            /\ failed = <<>>
            /\ Calls("runAnalyze") # {} /\ queriesStats # {}
            /\ inputs["cleanup_level"] # "none" => Calls("runCleanup") # {}
            /\ uploadEnabled => Calls("uploadFromActions") # {}
            /\ udState = "returned"
            /\ i = Len(reports)
            /\ Cardinality(FinishReports) = 1

C19_Witness ==
    /\ pc = "done"
    /\ \E i \in FinishReports : reports[i].base.status = "success"
    /\ Calls("walkLogFiles") # {}
    /\ Calls("PUT database") # {}

\* The positions in trace of the sends of finish records.
FinishSends == Calls("sendStatusReport") \ {1}

\* C20: in a run whose try block threw, the failure record is sent before
\* the debug walk begins, so it is sent even if the walk throws; in a run
\* whose try block completed, every step of the walk comes before the final
\* record, which is sent once the walk has completed without an exception.
C20_RecordAndWalkOrder ==
    /\ thrownAt # {} =>
          /\ \A w \in Calls("walkLogFiles") :
                /\ FinishSends # {}
                /\ \A r \in FinishSends : r < w
          /\ TryIsOver => \E i \in FinishReports : reports[i].base.status = "failure"
    /\ thrownAt = {} =>
          /\ \A w \in Calls("walkLogFiles") : \A r \in FinishSends : w < r
          /\ FinishSends # {} => uncaught = {}
          /\ (pc = "done" /\ ~aborted /\ uncaught = {}) => FinishSends # {}

C20_Witness ==
    /\ pc = "done"
    /\ thrownAt # {}
    /\ uncaught # {}
    /\ \E i \in FinishReports : reports[i].base.status = "failure"

\* C12: no exception leaves runWrapper(): the run goes on until it is done,
\* an exception that left run() is handed to core.setFailed by runWrapper(),
\* and a run that ended because of an exception is marked failed, every mark
\* with a message; the mark the catch block of run() sets for the exception
\* of a stage is the message of the error alone.
C12_NoUnhandledFault ==
    /\ pc # "done" => ENABLED Next
    /\ uncaught # {} => pc \in {"finally", "walkLogFiles", "runWrapperCatch", "done"}
    /\ (pc = "done" /\ uncaught # {}) =>
          \E e \in uncaught :
              failed[Len(failed)] =
                  [prefix |-> "analyze action failed: ", name |-> e.name, text |-> e.message]
    /\ (pc = "done" /\ (thrownAt # {} \/ uncaught # {})) => Len(failed) >= 1
    /\ \A i \in DOMAIN failed : failed[i].text # ""
    /\ (thrownAt # {} /\ pc # "catch") =>
          \E e \in error : failed[1] = [prefix |-> "", name |-> "", text |-> e.message]

C12_Witness ==
    /\ pc = "done"
    /\ ThrownIn("runAnalyze")
    /\ \E i \in Calls("sendStatusReport") : trace[i].arg = "threw"
    /\ Calls("walkLogFiles") # {}
    /\ Len(failed) = 2
    /\ FinishReports = {}

\* C13: getRef returns the declared ref unchanged when it is no
\* refs/pull/<n>/merge, whatever the commit identifiers, and when it is one
\* and the current commit is the checked-out one; it returns
\* refs/pull/<n>/head, with the same <n>, when it is one and the two commits
\* differ.
C13_MergeRefOrHeadRef ==
    (pc = "gotRef" /\ refCall.GITHUB_REF # <<>>) =>
        LET ref == refCall.GITHUB_REF
            merge == \E n \in PullNumbers : ref = <<"refs", "pull", n, "merge">>
        IN
        /\ refCall.threw = {}
        /\ ~merge => refCall.returned = {ref}
        /\ (merge /\ refCall.oid = refCall.GITHUB_SHA) => refCall.returned = {ref}
        /\ (merge /\ refCall.oid # refCall.GITHUB_SHA) =>
              \E n \in PullNumbers :
                  /\ ref = <<"refs", "pull", n, "merge">>
                  /\ refCall.returned = {<<"refs", "pull", n, "head">>}

C13_Witness ==
    /\ pc = "gotRef"
    /\ refCall.GITHUB_REF = <<"refs", "pull", "1", "merge">>
    /\ refCall.GITHUB_SHA = "aaaaaaaa"
    /\ refCall.oid = "bbbbbbbb"
    /\ refCall.returned = {<<"refs", "pull", "1", "head">>}

\* C14: getRef on an empty declared ref throws and returns no ref, whatever
\* the commit identifiers, without asking for the current commit.
C14_EmptyRefThrows ==
    (pc = "gotRef" /\ refCall.GITHUB_REF = <<>>) =>
        /\ refCall.threw # {}
        /\ refCall.returned = {}
        /\ ~refCall.asked

C14_Witness ==
    /\ pc = "gotRef"
    /\ refCall.GITHUB_REF = <<>>
    /\ refCall.GITHUB_SHA # refCall.oid
    /\ refCall.threw = {"InvalidStateError"}

====
